---- MODULE Spec2Model ----
(***************************************************************************)
(* Vigenere.py: text normalisation, key validation, key expansion, the     *)
(* Vigenere transform, the file operations and the console dispatch.       *)
(* Strings are sequences of Unicode code points; a file holds a sequence   *)
(* of bytes.                                                               *)
(***************************************************************************)
EXTENDS Integers, Sequences, FiniteSets, TLC

VARIABLES texto, clave, pc, res, vuelta, log, fs, argv, llamada, exit_code

vars == <<texto, clave, pc, res, vuelta, log, fs, argv, llamada, exit_code>>

---------------------------------------------------------------------------
(* Bounds of the explored inputs *)

MaxTexto == 4
MaxClave == 3
MaxBytes == 2
MaxBytesCli == 1
MaxArgs == 4

SeqsUpTo(S, n) == UNION {[1..m -> S] : m \in 0..n}

\* 'b', ' ', '1'
AlfabetoTexto == {98, 32, 49}
\* 'B', 'z', ' ', U+200B, U+00DF
AlfabetoClave == {66, 122, 32, 8203, 223}

Textos == SeqsUpTo(AlfabetoTexto, MaxTexto)
Claves == SeqsUpTo(AlfabetoClave, MaxClave)

---------------------------------------------------------------------------
(* Configuration and the Python built-ins the functions rely on *)

MINIMO_CLAVE == 3

CARACTERES_INVISIBLES == {8203, 8204, 8205, 8288, 65279}

ASCII_UPPERCASE == 65..90

\* the characters str.strip() removes
WHITESPACE == {9, 10, 11, 12, 13, 28, 29, 30, 31, 32, 133, 160}

\* str.upper() of one character: a sequence, since U+00DF becomes "SS"
CharUpper(c) ==
  IF c \in 97..122 THEN <<c - 32>>
  ELSE IF c = 223 THEN <<83, 83>>
  ELSE IF c = 305 THEN <<73>>
  ELSE IF c = 383 THEN <<83>>
  ELSE IF c = 181 THEN <<924>>
  ELSE IF c = 255 THEN <<376>>
  ELSE IF c \in (224..254) \ {247} THEN <<c - 32>>
  ELSE <<c>>

RECURSIVE upper(_)
upper(s) == IF s = <<>> THEN <<>> ELSE CharUpper(Head(s)) \o upper(Tail(s))

RECURSIVE lstrip(_)
lstrip(s) == IF s # <<>> /\ Head(s) \in WHITESPACE THEN lstrip(Tail(s)) ELSE s

RECURSIVE rstrip(_)
rstrip(s) ==
  IF s # <<>> /\ s[Len(s)] \in WHITESPACE THEN rstrip(SubSeq(s, 1, Len(s) - 1)) ELSE s

strip(s) == rstrip(lstrip(s))

HexDigit(n) == IF n < 10 THEN 48 + n ELSE 87 + n

HexDigitUpper(n) == IF n < 10 THEN 48 + n ELSE 55 + n

\* repr() of a non-printable character of the basic plane: '\uxxxx' with its quotes
repr(c) ==
  <<39, 92, 117, HexDigit(c \div 4096), HexDigit((c \div 256) % 16),
    HexDigit((c \div 16) % 16), HexDigit(c % 16), 39>>

\* f"U+{n:04X}"
FormatCodigo(n) ==
  <<85, 43, HexDigitUpper((n \div 4096) % 16), HexDigitUpper((n \div 256) % 16),
    HexDigitUpper((n \div 16) % 16), HexDigitUpper(n % 16)>>

\* outcome of a call: a returned value or a raised exception, with what it logged
Return(v) == [exc |-> "None", val |-> v, log |-> {}]

Raise(e, m) == [exc |-> e, val |-> m, log |-> {}]

NoRes == [exc |-> "None", val |-> <<>>, log |-> {}]

Mensaje(m, a) == [msg |-> m, args |-> a]

MSG_OK == ""
MSG_CLAVE_VACIA == "La clave no puede estar vacia."
MSG_INVISIBLES == "La clave contiene caracteres invisibles o ilegales"
MSG_SIN_LETRAS == "La clave debe contener al menos una letra A-Z."
MSG_CORTA == "La clave debe tener al menos MINIMO_CLAVE letras."
MSG_NO_VALIDOS == "La clave contiene caracteres no validos"
MSG_TEXTO_VACIO == "El texto no puede estar vacio."
MSG_TEXTO_SIN_LETRAS == "El texto debe contener al menos una letra A-Z."
MSG_ORD == "ord() expected a character"
WARN_CLAVE_INCORRECTA == "Posible clave incorrecta"

---------------------------------------------------------------------------
(* Auxiliary functions *)

limpiar_texto(t) == SelectSeq(upper(t), LAMBDA c : c \in ASCII_UPPERCASE)

detectar_invisibles(cadena) ==
  LET inv == SelectSeq(cadena, LAMBDA c : c \in CARACTERES_INVISIBLES)
  IN  [i \in 1..Len(inv) |-> repr(inv[i])]

normalizar_clave(k) == SelectSeq(upper(k), LAMBDA c : c \in ASCII_UPPERCASE)

validar_datos_sin_texto_limpio(t, k) ==
  LET invisibles == detectar_invisibles(k)
      clave_normalizada == normalizar_clave(k)
  IN  IF k = <<>> \/ strip(k) = <<>>
        THEN Return(<<FALSE, Mensaje(MSG_CLAVE_VACIA, <<>>)>>)
      ELSE IF invisibles # <<>>
        THEN IF \E i \in 1..Len(invisibles) : Len(invisibles[i]) # 1
               THEN Raise("TypeError", Mensaje(MSG_ORD, <<>>))
               ELSE Return(<<FALSE, Mensaje(MSG_INVISIBLES,
                      [i \in 1..Len(invisibles) |-> FormatCodigo(invisibles[i][1])])>>)
      ELSE IF clave_normalizada = <<>>
        THEN Return(<<FALSE, Mensaje(MSG_SIN_LETRAS, <<>>)>>)
      ELSE IF Len(clave_normalizada) < MINIMO_CLAVE
        THEN Return(<<FALSE, Mensaje(MSG_CORTA, <<>>)>>)
      ELSE IF clave_normalizada # upper(k)
        THEN Return(<<FALSE, Mensaje(MSG_NO_VALIDOS, <<k, clave_normalizada>>)>>)
      ELSE IF t = <<>> \/ strip(t) = <<>>
        THEN Return(<<FALSE, Mensaje(MSG_TEXTO_VACIO, <<>>)>>)
      ELSE Return(<<TRUE, Mensaje(MSG_OK, <<>>)>>)

validar_datos(t, k) ==
  LET invisibles == detectar_invisibles(k)
      clave_normalizada == normalizar_clave(k)
      texto_limpio == limpiar_texto(t)
  IN  IF k = <<>> \/ strip(k) = <<>>
        THEN Return(<<FALSE, Mensaje(MSG_CLAVE_VACIA, <<>>)>>)
      ELSE IF invisibles # <<>>
        \* ord() of an element of invisibles: a TypeError unless it is one character
        THEN IF \E i \in 1..Len(invisibles) : Len(invisibles[i]) # 1
               THEN Raise("TypeError", Mensaje(MSG_ORD, <<>>))
               ELSE Return(<<FALSE, Mensaje(MSG_INVISIBLES,
                      [i \in 1..Len(invisibles) |-> FormatCodigo(invisibles[i][1])])>>)
      ELSE IF clave_normalizada = <<>>
        THEN Return(<<FALSE, Mensaje(MSG_SIN_LETRAS, <<>>)>>)
      ELSE IF Len(clave_normalizada) < MINIMO_CLAVE
        THEN Return(<<FALSE, Mensaje(MSG_CORTA, <<>>)>>)
      ELSE IF clave_normalizada # upper(k)
        THEN Return(<<FALSE, Mensaje(MSG_NO_VALIDOS, <<k, clave_normalizada>>)>>)
      ELSE IF t = <<>> \/ strip(t) = <<>>
        THEN Return(<<FALSE, Mensaje(MSG_TEXTO_VACIO, <<>>)>>)
      ELSE IF texto_limpio = <<>>
        THEN Return(<<FALSE, Mensaje(MSG_TEXTO_SIN_LETRAS, <<>>)>>)
      ELSE Return(<<TRUE, Mensaje(MSG_OK, <<>>)>>)

---------------------------------------------------------------------------
(* The Vigenere algorithm *)

\* clave * n
RECURSIVE Repetir(_, _)
Repetir(s, n) == IF n <= 0 THEN <<>> ELSE s \o Repetir(s, n - 1)

\* s[:n]
Prefijo(s, n) == SubSeq(s, 1, IF n < Len(s) THEN n ELSE Len(s))

ajustar_clave_sin_resto(t, k) ==
  LET c == normalizar_clave(k)
  IN  IF c = <<>>
        THEN Raise("ValueError", Mensaje(MSG_CLAVE_VACIA, <<>>))
        ELSE Return(Prefijo(Repetir(c, Len(t) \div Len(c)), Len(t)))

ajustar_clave(t, k) ==
  LET c == normalizar_clave(k)
  IN  IF c = <<>>
        THEN Raise("ValueError", Mensaje(MSG_CLAVE_VACIA, <<>>))
        ELSE LET repeticiones == (Len(t) \div Len(c)) + 1
             IN  Return(Prefijo(Repetir(c, repeticiones), Len(t)))

\* the number of pairs zip(a, b) yields
LenZip(a, b) == IF Len(a) < Len(b) THEN Len(a) ELSE Len(b)

cifrar_vigenere_sin_modulo(t, k) ==
  LET v == validar_datos(t, k)
  IN  IF v.exc # "None" THEN v
      ELSE IF ~v.val[1] THEN Raise("ValueError", v.val[2])
      ELSE LET texto_limpio == limpiar_texto(t)
               clave_ajustada == ajustar_clave(texto_limpio, k)
           IN  IF clave_ajustada.exc # "None" THEN clave_ajustada
               ELSE Return([i \in 1..LenZip(texto_limpio, clave_ajustada.val) |->
                               ((texto_limpio[i] - 65) + (clave_ajustada.val[i] - 65)) + 65])

cifrar_vigenere(t, k) ==
  LET v == validar_datos(t, k)
  IN  IF v.exc # "None" THEN v
      ELSE IF ~v.val[1] THEN Raise("ValueError", v.val[2])
      ELSE LET texto_limpio == limpiar_texto(t)
               clave_ajustada == ajustar_clave(texto_limpio, k)
           IN  IF clave_ajustada.exc # "None" THEN clave_ajustada
               ELSE Return([i \in 1..LenZip(texto_limpio, clave_ajustada.val) |->
                               (((texto_limpio[i] - 65) + (clave_ajustada.val[i] - 65)) % 26) + 65])

descifrar_vigenere_suma(t, k) ==
  LET v == validar_datos(t, k)
  IN  IF v.exc # "None" THEN v
      ELSE IF ~v.val[1] THEN Raise("ValueError", v.val[2])
      ELSE LET texto_limpio == limpiar_texto(t)
               clave_ajustada == ajustar_clave(texto_limpio, k)
           IN  IF clave_ajustada.exc # "None" THEN clave_ajustada
               ELSE Return([i \in 1..LenZip(texto_limpio, clave_ajustada.val) |->
                               (((texto_limpio[i] - 65) + (clave_ajustada.val[i] - 65)) % 26) + 65])

descifrar_vigenere(t, k) ==
  LET v == validar_datos(t, k)
  IN  IF v.exc # "None" THEN v
      ELSE IF ~v.val[1] THEN Raise("ValueError", v.val[2])
      ELSE LET texto_limpio == limpiar_texto(t)
               clave_ajustada == ajustar_clave(texto_limpio, k)
           IN  IF clave_ajustada.exc # "None" THEN clave_ajustada
               ELSE LET texto_descifrado ==
                          [i \in 1..LenZip(texto_limpio, clave_ajustada.val) |->
                             (((texto_limpio[i] - 65) - (clave_ajustada.val[i] - 65)) % 26) + 65]
                    IN  [exc |-> "None", val |-> texto_descifrado,
                         log |-> IF ~(\E i \in 1..Len(texto_descifrado) :
                                        texto_descifrado[i] \in ASCII_UPPERCASE)
                                   THEN {WARN_CLAVE_INCORRECTA} ELSE {}]

---------------------------------------------------------------------------
(* The file system: a path names no file, a file that cannot be opened, or *)
(* a file holding bytes                                                    *)

\* "e", "s"
Rutas == {<<101>>, <<115>>}

\* 'b', ' ', and the two bytes of U+00DF in UTF-8
AlfabetoBytes == {98, 32, 195, 159}

NoExiste == [tipo |-> "no_existe", bytes |-> <<>>]

SinPermiso == [tipo |-> "sin_permiso", bytes |-> <<>>]

Fichero(b) == [tipo |-> "fichero", bytes |-> b]

FsVacio == [r \in Rutas |-> NoExiste]

Contenidos(n) == {NoExiste, SinPermiso} \cup {Fichero(b) : b \in SeqsUpTo(AlfabetoBytes, n)}

\* bytes.decode("utf-8") for sequences of one and two bytes
RECURSIVE DecodeUtf8(_)
DecodeUtf8(b) ==
  IF b = <<>> THEN [ok |-> TRUE, txt |-> <<>>]
  ELSE IF b[1] < 128
    THEN LET r == DecodeUtf8(Tail(b))
         IN  [ok |-> r.ok, txt |-> <<b[1]>> \o r.txt]
  ELSE IF b[1] \in 194..223 /\ Len(b) >= 2 /\ b[2] \in 128..191
    THEN LET r == DecodeUtf8(SubSeq(b, 3, Len(b)))
         IN  [ok |-> r.ok, txt |-> <<((b[1] - 192) * 64) + (b[2] - 128)>> \o r.txt]
  ELSE [ok |-> FALSE, txt |-> <<>>]

\* bytes.decode("latin-1"): each byte is the code point of its character
DecodeLatin1(b) == b

\* str.encode("utf-8") of one character of the basic plane
Utf8Char(c) ==
  IF c < 128 THEN <<c>>
  ELSE IF c < 2048 THEN <<192 + (c \div 64), 128 + (c % 64)>>
  ELSE <<224 + (c \div 4096), 128 + ((c \div 64) % 64), 128 + (c % 64)>>

RECURSIVE EncodeUtf8(_)
EncodeUtf8(s) == IF s = <<>> THEN <<>> ELSE Utf8Char(Head(s)) \o EncodeUtf8(Tail(s))

ERR_NO_UTF8 == "no esta en UTF-8, probando Latin-1..."
ERR_NO_EXISTE == "El fichero no existe."
ERR_LEER == "No se pudo leer"
ERR_ENTRADA_NO_EXISTE == "El archivo de entrada no existe."
ERR_ENTRADA_NO_LEIDA == "No se pudo leer el archivo de entrada."
ERR_ESCRIBIR == "No se pudo escribir"
INFO_ESCRITO == "Fichero escrito"
ERR_USO == "Uso incorrecto."

\* what a path names: a path the file system does not hold names no file
Archivo(f, path) == IF path \in DOMAIN f THEN f[path] ELSE NoExiste

exists(f, path) == Archivo(f, path).tipo # "no_existe"

leer_fichero(f, path) ==
  IF Archivo(f, path).tipo = "no_existe" THEN [val |-> <<>>, log |-> {ERR_NO_EXISTE}]
  ELSE IF Archivo(f, path).tipo = "sin_permiso" THEN [val |-> <<>>, log |-> {ERR_LEER}]
  ELSE IF DecodeUtf8(Archivo(f, path).bytes).ok
    THEN [val |-> DecodeUtf8(Archivo(f, path).bytes).txt, log |-> {}]
  ELSE [val |-> DecodeLatin1(Archivo(f, path).bytes), log |-> {ERR_NO_UTF8}]

\* the file system and the log after escribir_fichero(path, contenido)
escribir_fichero(f, path, contenido) ==
  IF Archivo(f, path).tipo = "sin_permiso"
    THEN [fs |-> f, log |-> {ERR_ESCRIBIR}]
    ELSE [fs |-> [p \in DOMAIN f \cup {path} |->
                   IF p = path THEN Fichero(EncodeUtf8(contenido)) ELSE f[p]],
          log |-> {INFO_ESCRITO}]

\* the cipher function was not called
NoInvocado == [exc |-> "NoInvocado", val |-> <<>>, log |-> {}]

\* outcome of a file operation: the exception it lets through, the file system
\* it leaves, what the cipher function it called returned, what it logged
Hecho(e, f, c, l) == [exc |-> e, fs |-> f, cifra |-> c, val |-> <<>>, log |-> l]

\* what the file operation does with the outcome c of its cipher call
TrasCifra(f, ruta_salida, c, l) ==
  IF c.exc = "None"
    THEN LET w == escribir_fichero(f, ruta_salida, c.val)
         IN  Hecho("None", w.fs, c, l \cup c.log \cup w.log)
  ELSE IF c.exc = "ValueError"
    THEN Hecho("None", f, c, l \cup {c.val.msg})
  ELSE Hecho(c.exc, f, c, l)

cifrar_archivo_sin_comprobar_lectura(f, ruta_entrada, ruta_salida, k) ==
  IF ~exists(f, ruta_entrada)
    THEN Hecho("None", f, NoInvocado, {ERR_ENTRADA_NO_EXISTE})
    ELSE LET contenido == leer_fichero(f, ruta_entrada)
         IN  TrasCifra(f, ruta_salida, cifrar_vigenere(contenido.val, k), contenido.log)

cifrar_archivo(f, ruta_entrada, ruta_salida, k) ==
  IF ~exists(f, ruta_entrada)
    THEN Hecho("None", f, NoInvocado, {ERR_ENTRADA_NO_EXISTE})
    ELSE LET contenido == leer_fichero(f, ruta_entrada)
         IN  IF contenido.val = <<>>
               THEN Hecho("None", f, NoInvocado, contenido.log \cup {ERR_ENTRADA_NO_LEIDA})
               ELSE TrasCifra(f, ruta_salida, cifrar_vigenere(contenido.val, k),
                              contenido.log)

descifrar_archivo(f, ruta_entrada, ruta_salida, k) ==
  IF ~exists(f, ruta_entrada)
    THEN Hecho("None", f, NoInvocado, {ERR_ENTRADA_NO_EXISTE})
    ELSE LET contenido == leer_fichero(f, ruta_entrada)
         IN  IF contenido.val = <<>>
               THEN Hecho("None", f, NoInvocado, contenido.log \cup {ERR_ENTRADA_NO_LEIDA})
               ELSE TrasCifra(f, ruta_salida, descifrar_vigenere(contenido.val, k),
                              contenido.log)

NoLlamada == [fn |-> "", ruta_entrada |-> <<>>, ruta_salida |-> <<>>, clave |-> <<>>]

Llamada(fn, e, s, k) == [fn |-> fn, ruta_entrada |-> e, ruta_salida |-> s, clave |-> k]

---------------------------------------------------------------------------
(* The console dispatch *)

\* "cifrar", "descifrar", "-archivo"
CIFRAR == <<99, 105, 102, 114, 97, 114>>
DESCIFRAR == <<100, 101, 115>> \o CIFRAR
ARCHIVO == <<45, 97, 114, 99, 104, 105, 118, 111>>
CIFRAR_ARCHIVO == CIFRAR \o ARCHIVO
DESCIFRAR_ARCHIVO == DESCIFRAR \o ARCHIVO

\* str.lower() on the characters whose lower case is one character
CharLower(c) ==
  IF c \in 65..90 THEN c + 32
  ELSE IF c \in (192..222) \ {215} THEN c + 32
  ELSE c

lower(s) == [i \in 1..Len(s) |-> CharLower(s[i])]

\* outcome of the script: exit status, file system, what was dispatched, what
\* the dispatched function returned or raised, what was logged
Fin(status, f, ll, r, l) == [exit |-> status, fs |-> f, llamada |-> ll, res |-> r, log |-> l]

\* a cipher call whose result is printed
FinTexto(f, fn, r, t, k) ==
  IF r.exc = "None" THEN Fin(0, f, Llamada(fn, <<>>, <<>>, k), r, r.log)
  ELSE IF r.exc = "ValueError" THEN Fin(1, f, Llamada(fn, <<>>, <<>>, k), r, {r.val.msg})
  ELSE Fin(1, f, Llamada(fn, <<>>, <<>>, k), r, {})

\* a file operation: an exception it lets through ends the script with status 1
FinArchivo(fn, r, e, s, k) ==
  Fin(IF r.exc = "None" THEN 0 ELSE 1, r.fs, Llamada(fn, e, s, k), r, r.log)

\* the script run with one or more arguments; args[1] is the script's name, so
\* the source's args[i] is args[i + 1] here
main(f, args) ==
  LET modo == lower(args[2])
  IN  IF modo = CIFRAR /\ Len(args) >= 4
        THEN FinTexto(f, "cifrar_vigenere", cifrar_vigenere(args[3], args[4]),
                      args[3], args[4])
      ELSE IF modo = DESCIFRAR /\ Len(args) >= 4
        THEN FinTexto(f, "descifrar_vigenere", descifrar_vigenere(args[3], args[4]),
                      args[3], args[4])
      ELSE IF modo = CIFRAR_ARCHIVO /\ Len(args) >= 5
        THEN FinArchivo("cifrar_archivo", cifrar_archivo(f, args[3], args[4], args[5]),
                        args[3], args[4], args[5])
      ELSE IF modo = DESCIFRAR_ARCHIVO /\ Len(args) >= 5
        THEN FinArchivo("descifrar_archivo",
                        descifrar_archivo(f, args[3], args[4], args[5]),
                        args[3], args[4], args[5])
      ELSE Fin(1, f, Llamada("uso", <<>>, <<>>, <<>>), NoRes, {ERR_USO})

---------------------------------------------------------------------------
(* The functions applied to one text and one key *)

Init ==
  /\ texto \in Textos
  /\ clave \in Claves
  /\ pc = "inicio"
  /\ res = NoRes
  /\ vuelta = NoRes
  /\ log = {}
  /\ fs = FsVacio
  /\ argv = <<>>
  /\ llamada = NoLlamada
  /\ exit_code = -1

Validar ==
  /\ pc = "inicio"
  /\ res' = validar_datos(texto, clave)
  /\ pc' = "validado"
  /\ UNCHANGED <<texto, clave, vuelta, log, fs, argv, llamada, exit_code>>

Ajustar ==
  /\ pc = "inicio"
  /\ res' = ajustar_clave(texto, clave)
  /\ pc' = "ajustado"
  /\ UNCHANGED <<texto, clave, vuelta, log, fs, argv, llamada, exit_code>>

Cifrar ==
  /\ pc = "inicio"
  /\ res' = cifrar_vigenere(texto, clave)
  /\ pc' = "cifrado"
  /\ UNCHANGED <<texto, clave, vuelta, log, fs, argv, llamada, exit_code>>

Descifrar ==
  /\ pc = "inicio"
  /\ res' = descifrar_vigenere(texto, clave)
  /\ log' = log \cup res'.log
  /\ pc' = "descifrado"
  /\ UNCHANGED <<texto, clave, vuelta, fs, argv, llamada, exit_code>>

\* descifrar_vigenere applied to what cifrar_vigenere returned, with the same key
DescifrarCifrado ==
  /\ pc = "cifrado"
  /\ res.exc = "None"
  /\ vuelta' = descifrar_vigenere(res.val, clave)
  /\ log' = log \cup vuelta'.log
  /\ pc' = "ida_vuelta"
  /\ UNCHANGED <<texto, clave, res, fs, argv, llamada, exit_code>>

Next == Validar \/ Ajustar \/ Cifrar \/ Descifrar \/ DescifrarCifrado

Spec == Init /\ [][Next]_vars

---------------------------------------------------------------------------
(* The file operations applied to a file system *)

\* "", "bb", "Bzb", "B<U+200B>B", "<U+00DF>b"
ClavesArchivo == {<<>>, <<98, 98>>, <<66, 122, 98>>, <<66, 8203, 66>>, <<223, 98>>}

InitArchivo ==
  /\ fs \in [Rutas -> Contenidos(MaxBytes)]
  /\ texto = <<>>
  /\ clave = <<>>
  /\ pc = "inicio"
  /\ res = NoRes
  /\ vuelta = NoRes
  /\ log = {}
  /\ argv = <<>>
  /\ llamada = NoLlamada
  /\ exit_code = -1

CifrarArchivo ==
  /\ pc = "inicio"
  /\ \E e \in Rutas, s \in Rutas, k \in ClavesArchivo :
       /\ llamada' = Llamada("cifrar_archivo", e, s, k)
       /\ res' = cifrar_archivo(fs, e, s, k)
  /\ fs' = res'.fs
  /\ log' = log \cup res'.log
  /\ pc' = "hecho"
  /\ UNCHANGED <<texto, clave, vuelta, argv, exit_code>>

DescifrarArchivo ==
  /\ pc = "inicio"
  /\ \E e \in Rutas, s \in Rutas, k \in ClavesArchivo :
       /\ llamada' = Llamada("descifrar_archivo", e, s, k)
       /\ res' = descifrar_archivo(fs, e, s, k)
  /\ fs' = res'.fs
  /\ log' = log \cup res'.log
  /\ pc' = "hecho"
  /\ UNCHANGED <<texto, clave, vuelta, argv, exit_code>>

NextArchivo == CifrarArchivo \/ DescifrarArchivo

SpecArchivo == InitArchivo /\ [][NextArchivo]_vars

---------------------------------------------------------------------------
(* The script run from the console *)

\* the words an argument is drawn from: the verbs, "CIFRAR", the path "e",
\* "Bzb" (a valid key, a text, a path naming no file) and a key holding U+200B
Palabras ==
  {CIFRAR, DESCIFRAR, CIFRAR_ARCHIVO, DESCIFRAR_ARCHIVO, <<67, 73, 70, 82, 65, 82>>,
   <<101>>, <<66, 122, 98>>, <<66, 8203, 66>>}

\* "vigenere.py"
PROG == <<118, 105, 103, 101, 110, 101, 114, 101, 46, 112, 121>>

InitCli ==
  /\ fs \in [Rutas -> Contenidos(MaxBytesCli)]
  /\ texto = <<>>
  /\ clave = <<>>
  /\ pc = "inicio"
  /\ res = NoRes
  /\ vuelta = NoRes
  /\ log = {}
  /\ argv = <<>>
  /\ llamada = NoLlamada
  /\ exit_code = -1

Main ==
  /\ pc = "inicio"
  /\ \E a \in SeqsUpTo(Palabras, MaxArgs) \ {<<>>} :
       /\ argv' = <<PROG>> \o a
       /\ LET fin == main(fs, argv')
          IN  /\ exit_code' = fin.exit
              /\ fs' = fin.fs
              /\ llamada' = fin.llamada
              /\ res' = fin.res
              /\ log' = log \cup fin.log
  /\ pc' = "terminado"
  /\ UNCHANGED <<texto, clave, vuelta>>

NextCli == Main

SpecCli == InitCli /\ [][NextCli]_vars

---------------------------------------------------------------------------
(* Properties of the functions *)

EsLetraAscii(c) == c \in 65..90 \/ c \in 97..122

EnBlanco(s) == \A i \in 1..Len(s) : s[i] \in WHITESPACE

TieneInvisibles(s) == \E i \in 1..Len(s) : s[i] \in CARACTERES_INVISIBLES

EsValido(r) == r.exc = "None" /\ r.val[1]

\* the letter of the normalized key that position i of the text meets
LetraClave(k, i) == normalizar_clave(k)[((i - 1) % Len(normalizar_clave(k))) + 1]

SoloLetras(s) == \A i \in 1..Len(s) : s[i] \in ASCII_UPPERCASE

\* C1: whenever validar_datos(texto, clave) accepts, cifrar_vigenere returns,
\* and descifrar_vigenere of its result with the same key returns
\* limpiar_texto(texto)
C1_IdaYVuelta ==
  /\ (pc = "cifrado" /\ EsValido(validar_datos(texto, clave))) => res.exc = "None"
  /\ pc = "ida_vuelta" =>
       /\ EsValido(validar_datos(texto, clave))
       /\ vuelta.exc = "None"
       /\ vuelta.val = limpiar_texto(texto)

C1_Testigo ==
  /\ pc = "ida_vuelta"
  /\ Len(limpiar_texto(texto)) > Len(normalizar_clave(clave))
  /\ res.val # limpiar_texto(texto)
  /\ limpiar_texto(texto) # texto

\* the message validar_datos must give according to the seven checks taken in order
PrimerFallo(t, k) ==
  IF k = <<>> \/ EnBlanco(k) THEN MSG_CLAVE_VACIA
  ELSE IF TieneInvisibles(k) THEN MSG_INVISIBLES
  ELSE IF normalizar_clave(k) = <<>> THEN MSG_SIN_LETRAS
  ELSE IF Len(normalizar_clave(k)) < MINIMO_CLAVE THEN MSG_CORTA
  ELSE IF normalizar_clave(k) # upper(k) THEN MSG_NO_VALIDOS
  ELSE IF t = <<>> \/ EnBlanco(t) THEN MSG_TEXTO_VACIO
  ELSE IF limpiar_texto(t) = <<>> THEN MSG_TEXTO_SIN_LETRAS
  ELSE MSG_OK

\* C2: validar_datos returns the failure reason of the first of the seven checks
\* that fails, and valid exactly when all seven pass
C2_OrdenDeComprobaciones ==
  pc = "validado" =>
    /\ res.exc = "None"
    /\ res.val[2].msg = PrimerFallo(texto, clave)
    /\ res.val[1] = (PrimerFallo(texto, clave) = MSG_OK)

\* C3: for a non-blank key holding an invisible character validar_datos returns
\* (False, the invisible-characters message) and does not raise, and
\* cifrar_vigenere / descifrar_vigenere fail with a ValueError carrying it
C3_InvisiblesRechazados ==
  (~EnBlanco(clave) /\ TieneInvisibles(clave)) =>
    /\ pc = "validado" =>
         /\ res.exc = "None"
         /\ res.val[1] = FALSE
         /\ res.val[2].msg = MSG_INVISIBLES
    /\ pc \in {"cifrado", "descifrado"} =>
         /\ res.exc = "ValueError"
         /\ res.val.msg = MSG_INVISIBLES

\* C4: a key validar_datos accepts consists of ASCII letters only, so the
\* normalized key has the length of the raw key
C4_ClaveEstricta ==
  (pc = "validado" /\ EsValido(res)) =>
    /\ \A i \in 1..Len(clave) : EsLetraAscii(clave[i])
    /\ Len(normalizar_clave(clave)) = Len(clave)

\* C5: what cifrar_vigenere and descifrar_vigenere return is A-Z only, as long as
\* limpiar_texto(texto), and position i is (text_i + key_(i mod len(key))) mod 26
\* for encryption, (text_i - key_(i mod len(key))) mod 26 for decryption
C5_SalidaCifrado ==
  (pc \in {"cifrado", "descifrado"} /\ EsValido(validar_datos(texto, clave))) =>
    /\ res.exc = "None"
    /\ Len(res.val) = Len(limpiar_texto(texto))
    /\ SoloLetras(res.val)
    /\ \A i \in 1..Len(res.val) :
         res.val[i] - 65 =
           IF pc = "cifrado"
             THEN ((limpiar_texto(texto)[i] - 65) + (LetraClave(clave, i) - 65)) % 26
             ELSE ((limpiar_texto(texto)[i] - 65) - (LetraClave(clave, i) - 65)) % 26

C5_Testigo ==
  /\ pc = "descifrado"
  /\ res.exc = "None"
  /\ Len(res.val) > Len(normalizar_clave(clave))
  /\ \E i \in 1..Len(res.val) : limpiar_texto(texto)[i] < LetraClave(clave, i)

\* C8: ajustar_clave returns a string as long as the text whose character i is
\* K[i mod len(K)], K the normalized key; the empty string for the empty text;
\* and it fails when K is empty
C8_AjustarClave ==
  pc = "ajustado" =>
    IF normalizar_clave(clave) = <<>>
      THEN res.exc = "ValueError"
      ELSE /\ res.exc = "None"
           /\ Len(res.val) = Len(texto)
           /\ \A i \in 1..Len(texto) : res.val[i] = LetraClave(clave, i)
           /\ texto = <<>> => res.val = <<>>

C8_Testigo ==
  /\ pc = "ajustado"
  /\ res.exc = "None"
  /\ Len(normalizar_clave(clave)) = 2
  /\ Len(res.val) = 3
  /\ res.val[1] # res.val[2]

\* C10: whenever descifrar_vigenere returns, its result is non-empty and A-Z
\* only, and the likely-wrong-key warning is not emitted
C10_AvisoInalcanzable ==
  /\ WARN_CLAVE_INCORRECTA \notin log
  /\ (pc = "descifrado" /\ res.exc = "None") => (res.val # <<>> /\ SoloLetras(res.val))
  /\ pc = "ida_vuelta" => (vuelta.exc = "None" => (vuelta.val # <<>> /\ SoloLetras(vuelta.val)))

C10_Testigo ==
  /\ pc = "descifrado"
  /\ res.exc = "None"
  /\ res.val # limpiar_texto(texto)
  /\ Len(res.val) < Len(texto)

---------------------------------------------------------------------------
(* Properties of the file operations and of the console dispatch *)

\* C6: a file operation leaves the content of the file at ruta_entrada as it
\* was, also when ruta_salida names the same file
C6_OrigenIntacto ==
  [][pc' = "hecho" =>
       Archivo(fs', llamada'.ruta_entrada) = Archivo(fs, llamada'.ruta_entrada)]_vars

\* the source of a file operation is a file whose reading gives a non-empty text
OrigenLegible(f, e) == Archivo(f, e).tipo = "fichero" /\ Archivo(f, e).bytes # <<>>

\* C9: a file operation writes the destination only when the source exists, its
\* reading gave a non-empty content and validar_datos accepted (content, key);
\* when the source is missing, unreadable or empty the cipher function is not
\* called and the file system stays as it was, and it stays as it was when the
\* cipher function fails
C9_EscrituraCondicionada ==
  [][pc' = "hecho" =>
       /\ ~OrigenLegible(fs, llamada'.ruta_entrada) =>
            (res'.cifra = NoInvocado /\ fs' = fs)
       /\ res'.cifra.exc \notin {"None", "NoInvocado"} => fs' = fs
       /\ fs' # fs =>
            /\ OrigenLegible(fs, llamada'.ruta_entrada)
            /\ EsValido(validar_datos(leer_fichero(fs, llamada'.ruta_entrada).val,
                                      llamada'.clave))
            /\ res'.cifra.exc = "None"
            /\ \A r \in Rutas \ {llamada'.ruta_salida} : fs'[r] = fs[r]]_vars

C9_Testigo ==
  /\ pc = "hecho"
  /\ res.cifra.exc = "ValueError"
  /\ llamada.ruta_salida # llamada.ruta_entrada
  /\ OrigenLegible(fs, llamada.ruta_entrada)
  /\ OrigenLegible(fs, llamada.ruta_salida)

\* C7: the script ends with a non-zero status on a malformed invocation and on
\* a validation error under each of the four verbs, and with status zero only
\* when the requested operation succeeded
C7_EstadoDeSalida ==
  pc = "terminado" =>
    /\ llamada.fn = "uso" => exit_code # 0
    /\ (llamada.fn \in {"cifrar_vigenere", "descifrar_vigenere"} /\ res.exc # "None")
         => exit_code # 0
    /\ (llamada.fn \in {"cifrar_archivo", "descifrar_archivo"}
          /\ res.cifra.exc = "ValueError")
         => exit_code # 0
    /\ (llamada.fn \in {"cifrar_archivo", "descifrar_archivo"} /\ exit_code = 0)
         => res.cifra.exc = "None"

====
